---- MODULE Spec2Model ----
(***************************************************************************)
(* BACOP (src/main.py): a scanner that mirrors a local file tree onto the  *)
(* URL space of a target, issues one HTTP request per mirrored path and    *)
(* prints the responses that pass the filter and matcher options.          *)
(*                                                                         *)
(* Python strings are modelled as sequences of one-character strings, so   *)
(* that split, strip, lower, int() and the substring test are computed     *)
(* and not assumed.  None, 'all' and sets are tagged records.              *)
(***************************************************************************)
EXTENDS Integers, Sequences, FiniteSets, TLC

VARIABLES
    argv,       \* the command line: each option as the user gave it, or absent
    env,        \* what the program runs against: the tree under -d, os.sep, the server
    args,       \* the argparse namespace; main rewrites its range options (lines 260-268)
    headers,    \* the headers dict built at lines 271-273 (a sequence of <<name, value>>)
    pc,         \* position of main: "start", "walk", "done", "exit", "interrupted"
    stack,      \* os.walk: per directory on the current path, the sub-directories left
    files,      \* the files of the directory os.walk yielded that the loop has not reached
    requests,   \* every requests.request call so far: [url, headers]
    output,     \* result lines printed on stdout: [path, status]
    last        \* the last process_request call: its path and what the server answered

vars == <<argv, env, args, headers, pc, stack, files, requests, output, last>>

----------------------------------------------------------------------------
(* Bounds of the model *)

MaxParts == 2      \* parts joined by ',' in a range-list input
MaxHeaders == 2    \* -H flags on the command line
MaxFiles == 3      \* files of the local tree

----------------------------------------------------------------------------
(* Python values *)

None == [kind |-> "None", s |-> <<>>, set |-> {}]
Str(s) == [kind |-> "str", s |-> s, set |-> {}]
All == [kind |-> "all", s |-> <<>>, set |-> {}]
SetOf(S) == [kind |-> "set", s |-> <<>>, set |-> S]

\* Python truthiness of the values above: None, '' and set() are false.
Truthy(v) ==
    \/ v.kind = "all"
    \/ v.kind = "str" /\ v.s # <<>>
    \/ v.kind = "set" /\ v.set # {}

Whitespace == {" ", "\n", "\t"}
Digits == <<"0", "1", "2", "3", "4", "5", "6", "7", "8", "9">>
UpperCase == <<"A", "B", "C", "D", "E", "F", "G", "H", "I", "J", "K", "L", "M",
               "N", "O", "P", "Q", "R", "S", "T", "U", "V", "W", "X", "Y", "Z">>
LowerCase == <<"a", "b", "c", "d", "e", "f", "g", "h", "i", "j", "k", "l", "m",
               "n", "o", "p", "q", "r", "s", "t", "u", "v", "w", "x", "y", "z">>

Range(f) == {f[i] : i \in DOMAIN f}

IsDigit(c) == c \in Range(Digits)
DigitVal(c) == (CHOOSE i \in DOMAIN Digits : Digits[i] = c) - 1

\* str.lower() on one character
LowerChar(c) ==
    IF c \in Range(UpperCase)
    THEN LowerCase[CHOOSE i \in DOMAIN UpperCase : UpperCase[i] = c]
    ELSE c

\* str.lower()
Lower(s) == [i \in DOMAIN s |-> LowerChar(s[i])]

\* str.lstrip(): leading characters of the set cs removed
RECURSIVE LStripChars(_, _)
LStripChars(s, cs) ==
    IF s # <<>> /\ Head(s) \in cs THEN LStripChars(Tail(s), cs) ELSE s

\* str.rstrip(chars): trailing characters of the set cs removed
RECURSIVE RStripChars(_, _)
RStripChars(s, cs) ==
    IF s # <<>> /\ s[Len(s)] \in cs
    THEN RStripChars(SubSeq(s, 1, Len(s) - 1), cs)
    ELSE s

\* str.strip()
Strip(s) == RStripChars(LStripChars(s, Whitespace), Whitespace)

\* str.split(sep) for a one-character separator: ''.split(',') is ['']
RECURSIVE SplitFrom(_, _, _, _, _)
SplitFrom(s, sep, i, cur, acc) ==
    IF i > Len(s) THEN Append(acc, cur)
    ELSE IF s[i] = sep THEN SplitFrom(s, sep, i + 1, <<>>, Append(acc, cur))
    ELSE SplitFrom(s, sep, i + 1, Append(cur, s[i]), acc)

Split(s, sep) == SplitFrom(s, sep, 1, <<>>, <<>>)

\* `c in s` for a character c
HasChar(s, c) == \E i \in DOMAIN s : s[i] = c

\* `sub in s` for strings
Contains(s, sub) ==
    \E i \in 0..(Len(s) - Len(sub)) :
        \A j \in 1..Len(sub) : s[i + j] = sub[j]

\* value of a non-empty digit string
RECURSIVE DigitsVal(_, _)
DigitsVal(s, acc) ==
    IF s = <<>> THEN acc ELSE DigitsVal(Tail(s), 10 * acc + DigitVal(Head(s)))

\* int(s): surrounding whitespace is dropped, an optional sign, then digits;
\* anything else raises ValueError (ok = FALSE).
PyInt(s) ==
    LET t == Strip(s)
        signed == t # <<>> /\ Head(t) \in {"+", "-"}
        d == IF signed THEN Tail(t) ELSE t
    IN  IF d # <<>> /\ \A i \in DOMAIN d : IsDigit(d[i])
        THEN [ok |-> TRUE,
              val |-> IF signed /\ Head(t) = "-" THEN -DigitsVal(d, 0) ELSE DigitsVal(d, 0)]
        ELSE [ok |-> FALSE, val |-> 0]

----------------------------------------------------------------------------
(* parse_range_list, lines 37-62 *)

\* range(start, end) in place of range(start, end + 1)
RangeOfPartExclusive(part) ==
    LET pieces == Split(part, "-") IN
    IF Len(pieces) = 2 /\ PyInt(pieces[1]).ok /\ PyInt(pieces[2]).ok
    THEN [ok |-> TRUE, set |-> PyInt(pieces[1]).val .. (PyInt(pieces[2]).val - 1)]
    ELSE [ok |-> FALSE, set |-> {}]

\* lines 49-54: a part holding '-' unpacks into exactly two ints or is ignored
RangeOfPart(part) ==
    LET pieces == Split(part, "-") IN
    IF Len(pieces) = 2 /\ PyInt(pieces[1]).ok /\ PyInt(pieces[2]).ok
    THEN [ok |-> TRUE, set |-> PyInt(pieces[1]).val .. PyInt(pieces[2]).val]
    ELSE [ok |-> FALSE, set |-> {}]

\* the loop of lines 47-61 from part i on, res being the set built so far
RECURSIVE ParseParts(_, _, _)
ParseParts(parts, i, res) ==
    IF i > Len(parts) THEN SetOf(res)
    ELSE LET part == Strip(parts[i]) IN
         IF HasChar(part, "-")
         THEN ParseParts(parts, i + 1, res \cup RangeOfPart(part).set)
         ELSE IF Lower(part) = <<"a", "l", "l">> THEN All
         ELSE IF PyInt(part).ok
              THEN ParseParts(parts, i + 1, res \cup {PyInt(part).val})
              ELSE ParseParts(parts, i + 1, res)

parse_range_list(value_str) ==
    IF ~Truthy(value_str) THEN None
    ELSE ParseParts(Split(value_str.s, ","), 1, {})

----------------------------------------------------------------------------
(* parse_headers, lines 64-71; dicts are insertion-ordered sequences of pairs *)

DictHas(d, k) == \E i \in DOMAIN d : d[i][1] = k

\* d[k] = v: an existing key keeps its place and takes the new value
DictSet(d, k, v) ==
    IF DictHas(d, k)
    THEN [i \in DOMAIN d |-> IF d[i][1] = k THEN <<k, v>> ELSE d[i]]
    ELSE Append(d, <<k, v>>)

\* h.split(':', 1) for an h that holds ':'
SplitFirst(h, sep) ==
    LET i == CHOOSE j \in DOMAIN h : h[j] = sep /\ \A k \in 1..(j - 1) : h[k] # sep
    IN  <<SubSeq(h, 1, i - 1), SubSeq(h, i + 1, Len(h))>>

RECURSIVE ParseHeaderList(_, _, _)
ParseHeaderList(header_list, i, hdrs) ==
    IF i > Len(header_list) THEN hdrs
    ELSE LET h == header_list[i] IN
         IF HasChar(h, ":")
         THEN ParseHeaderList(header_list, i + 1,
                  DictSet(hdrs, Strip(SplitFirst(h, ":")[1]), Strip(SplitFirst(h, ":")[2])))
         ELSE ParseHeaderList(header_list, i + 1, hdrs)

\* header_list is None (no -H) or a list of strings
parse_headers(header_list) ==
    IF header_list.kind = "None" \/ header_list.list = <<>> THEN <<>>
    ELSE ParseHeaderList(header_list.list, 1, <<>>)

NoHeaders == [kind |-> "None", list |-> <<>>]
HeaderList(l) == [kind |-> "list", list |-> l]

UserAgent == <<"U", "s", "e", "r", "-", "A", "g", "e", "n", "t">>
DefaultUA == <<"Y", "e", "s", "W", "e", "H", "a", "c", "k", "-",
               "S", "L", "C", "C", "9", "9", "9">>

\* lines 271-273
PrepareHeaders(header_list) ==
    LET h == parse_headers(header_list) IN
    IF ~DictHas(h, UserAgent) THEN DictSet(h, UserAgent, DefaultUA) ELSE h

----------------------------------------------------------------------------
(* match_value, lines 73-102 *)

match_value(value, criteria, mode) ==
    IF criteria.kind = "None" THEN FALSE
    ELSE IF mode = "set"
         THEN IF criteria.kind = "all" THEN TRUE ELSE value \in criteria.set
    ELSE IF mode = "text" THEN Contains(value, criteria.s)
    ELSE IF mode = "comparator"
         THEN LET c == criteria.s IN
              IF c # <<>> /\ Head(c) = ">"
              THEN PyInt(Tail(c)).ok /\ value > PyInt(Tail(c)).val
              ELSE IF c # <<>> /\ Head(c) = "<"
              THEN PyInt(Tail(c)).ok /\ value < PyInt(Tail(c)).val
              ELSE PyInt(c).ok /\ value = PyInt(c).val
    ELSE FALSE

----------------------------------------------------------------------------
(* check_conditions, lines 104-153 *)

\* one of the six blocks of lines 116-144: the check appended for option
\* prefix+letter, if that option is truthy
CheckOf(metrics, opts, prefix, letter, key, mode) ==
    IF Truthy(opts[prefix \o letter])
    THEN <<match_value(metrics[key], opts[prefix \o letter], mode)>>
    ELSE <<>>

\* the words block comparing the number of lines
ChecksOfWordsAsLines(metrics, opts, prefix) ==
    CheckOf(metrics, opts, prefix, "c", "status", "set")
    \o CheckOf(metrics, opts, prefix, "l", "lines", "set")
    \o CheckOf(metrics, opts, prefix, "w", "lines", "set")
    \o CheckOf(metrics, opts, prefix, "s", "size", "set")
    \o CheckOf(metrics, opts, prefix, "r", "body", "text")
    \o CheckOf(metrics, opts, prefix, "t", "duration", "comparator")

ChecksOf(metrics, opts, prefix) ==
    CheckOf(metrics, opts, prefix, "c", "status", "set")
    \o CheckOf(metrics, opts, prefix, "l", "lines", "set")
    \o CheckOf(metrics, opts, prefix, "w", "words", "set")
    \o CheckOf(metrics, opts, prefix, "s", "size", "set")
    \o CheckOf(metrics, opts, prefix, "r", "body", "text")
    \o CheckOf(metrics, opts, prefix, "t", "duration", "comparator")

check_conditions(metrics, opts, prefix) ==
    LET checks == ChecksOf(metrics, opts, prefix) IN
    IF checks = <<>> THEN (IF prefix = "f" THEN FALSE ELSE TRUE)
    ELSE IF opts[prefix \o "mode"] = "or"
         THEN \E i \in DOMAIN checks : checks[i]
         ELSE \A i \in DOMAIN checks : checks[i]

----------------------------------------------------------------------------
(* process_request, lines 155-224 *)

\* len(text.split()): the maximal runs of non-whitespace characters
WordCount(text) ==
    Cardinality({i \in DOMAIN text :
        text[i] \notin Whitespace /\ (i = 1 \/ text[i - 1] \in Whitespace)})

\* len(text.splitlines()) for texts whose only line break is "\n": a final
\* line break opens no further line
LineCount(text) ==
    Cardinality({i \in DOMAIN text : text[i] = "\n"})
    + (IF text # <<>> /\ text[Len(text)] # "\n" THEN 1 ELSE 0)

\* lines 174-187 (the body is ASCII: len(content) = len(text))
MetricsOf(resp) ==
    [status |-> resp.status,
     size |-> Len(resp.body),
     words |-> WordCount(resp.body),
     lines |-> LineCount(resp.body),
     duration |-> resp.elapsed,
     body |-> resp.body]

\* all() in place of any()
has_filtersAll(opts) ==
    \A k \in {"fc", "fl", "fw", "fs", "fr", "ft"} : Truthy(opts[k])

\* line 192
has_filters(opts) ==
    \E k \in {"fc", "fl", "fw", "fs", "fr", "ft"} : Truthy(opts[k])

\* lines 189-219: TRUE when the result line of line 219 is printed
Prints(metrics, opts) ==
    IF has_filters(opts)
    THEN IF check_conditions(metrics, opts, "f")
         THEN FALSE
         ELSE check_conditions(metrics, opts, "m")
    ELSE check_conditions(metrics, opts, "m")

\* a result line is dropped when its status repeats that of the previous answer
process_requestOncePerStatus(rel_path, resp, opts) ==
    IF resp.kind = "error" THEN <<>>
    ELSE IF Prints(MetricsOf(resp), opts) /\ last.resp.status # resp.status
         THEN <<[path |-> rel_path, status |-> resp.status]>>
         ELSE <<>>

\* lines 156-224: the lines process_request adds to stdout for one answer of
\* the server; a RequestException (line 221) prints nothing
process_request(rel_path, resp, opts) ==
    IF resp.kind = "error" THEN <<>>
    ELSE IF Prints(MetricsOf(resp), opts)
         THEN <<[path |-> rel_path, status |-> resp.status]>>
         ELSE <<>>

----------------------------------------------------------------------------
(* main, lines 226-306 *)

Absent == "absent"

DefaultMc == <<"2", "0", "0", ",", "2", "0", "4", ",", "3", "0", "1", ",",
               "3", "0", "2", ",", "3", "0", "7", ",", "4", "0", "1", ",",
               "4", "0", "3", ",", "4", "0", "5", ",", "5", "0", "0">>

RangeOptions == {"mc", "ml", "mw", "ms", "fc", "fl", "fw", "fs"}
StringOptions == {"mr", "mt", "fr", "ft"}

\* lines 230-256: the namespace parse_args() returns for a command line
parse_args(cl) ==
    [url |-> cl.url, header |-> cl.header,
     mc |-> IF cl.mc.kind = "None" THEN Str(DefaultMc) ELSE cl.mc,
     ml |-> cl.ml, mw |-> cl.mw, ms |-> cl.ms, mr |-> cl.mr, mt |-> cl.mt,
     mmode |-> IF cl.mmode = Absent THEN "and" ELSE cl.mmode,
     fc |-> cl.fc, fl |-> cl.fl, fw |-> cl.fw, fs |-> cl.fs, fr |-> cl.fr, ft |-> cl.ft,
     fmode |-> IF cl.fmode = Absent THEN "or" ELSE cl.fmode]

\* lines 260-268
ParseRanges(a) ==
    [k \in DOMAIN a |-> IF k \in RangeOptions THEN parse_range_list(a[k]) ELSE a[k]]

Parent(p) == SubSeq(p, 1, Len(p) - 1)

\* os.path.relpath(file_path, args.dir): the names below the directory, joined by os.sep
RECURSIVE JoinPath(_, _)
JoinPath(names, sep) ==
    IF names = <<>> THEN <<>>
    ELSE IF Len(names) = 1 THEN names[1]
    ELSE names[1] \o <<sep>> \o JoinPath(Tail(names), sep)

\* str.replace(old, new) for one-character strings
Replace(s, old, new) == [i \in DOMAIN s |-> IF s[i] = old THEN new ELSE s[i]]

\* lines 296-299
RelPath(path, sep) == Replace(JoinPath(path, sep), sep, "/")

\* url.rstrip('/') taken for the removal of one trailing '/'
FullUrlOneSlash(url, rel_path) ==
    (IF url # <<>> /\ url[Len(url)] = "/" THEN Parent(url) ELSE url)
    \o <<"/">> \o rel_path

\* line 300
FullUrl(url, rel_path) == RStripChars(url, {"/"}) \o <<"/">> \o rel_path

FilesIn(d) == {p \in env.files : Parent(p) = d}
SubDirs(d) == {q \in env.dirs : q # <<>> /\ Parent(q) = d}

\* os.walk returns from the directories it has finished
RECURSIVE Unwind(_)
Unwind(st) ==
    IF st # <<>> /\ st[Len(st)] = {} THEN Unwind(Parent(st)) ELSE st

ErrorResp == [kind |-> "error", status |-> 0, body |-> <<>>, elapsed |-> 0]
Resp(status, body, elapsed) ==
    [kind |-> "response", status |-> status, body |-> body, elapsed |-> elapsed]

\* lines 258-278: pre-processing of the arguments, headers, check of the directory
Prepare ==
    /\ pc = "start"
    /\ args' = ParseRanges(args)
    /\ headers' = PrepareHeaders(args.header)
    /\ pc' = IF env.isdir THEN "walk" ELSE "exit"
    /\ stack' = IF env.isdir THEN << {<<>>} >> ELSE <<>>
    /\ UNCHANGED <<argv, env, files, requests, output, last>>

\* line 294: os.walk yields the next directory (top-down, sub-directories in
\* the order the OS lists them), or is exhausted and main returns
WalkDir ==
    /\ pc = "walk"
    /\ files = {}
    /\ LET st == Unwind(stack) IN
       IF st = <<>>
       THEN /\ pc' = "done"
            /\ stack' = <<>>
            /\ files' = {}
       ELSE \E d \in st[Len(st)] :
            /\ stack' = Append([st EXCEPT ![Len(st)] = @ \ {d}], SubDirs(d))
            /\ files' = FilesIn(d)
            /\ pc' = "walk"
    /\ UNCHANGED <<argv, env, args, headers, requests, output, last>>

\* lines 295-302: one iteration of the loop over the files of the directory
\* (in the order the OS lists them): the request and what process_request prints
ProcessFile ==
    /\ pc = "walk"
    /\ \E f \in files : \E resp \in env.server[f] :
        LET rel_path == RelPath(f, env.sep)
            full_url == FullUrl(args.url, rel_path)
        IN  /\ requests' = Append(requests, [url |-> full_url, headers |-> headers])
            /\ output' = output \o process_request(rel_path, resp, args)
            /\ last' = [path |-> rel_path, resp |-> resp]
            /\ files' = files \ {f}
    /\ UNCHANGED <<argv, env, args, headers, pc, stack>>

\* lines 304-306: Ctrl-C during the scan
Interrupt ==
    /\ pc = "walk"
    /\ pc' = "interrupted"
    /\ UNCHANGED <<argv, env, args, headers, stack, files, requests, output, last>>

Next == Prepare \/ WalkDir \/ ProcessFile \/ Interrupt

----------------------------------------------------------------------------
(* Inputs *)

NoArgv ==
    [url |-> <<"h">>, header |-> NoHeaders,
     mc |-> None, ml |-> None, mw |-> None, ms |-> None, mr |-> None, mt |-> None,
     mmode |-> Absent,
     fc |-> None, fl |-> None, fw |-> None, fs |-> None, fr |-> None, ft |-> None,
     fmode |-> Absent]

\* all strings over the characters cs of at most n characters
StringsUpTo(cs, n) == UNION {[1..k -> cs] : k \in 0..n}

\* the local tree: files of the universe, at most MaxFiles of them
A == <<"a">>
B == <<"b">>
D == <<"d">>
E == <<"e">>
BackslashName == <<"b", "\\", "c">>
PathUniverse == {<<A>>, <<BackslashName>>, <<D, A>>, <<D, E, B>>, <<E, A>>}

RECURSIVE Prefixes(_)
Prefixes(p) == IF p = <<>> THEN {<<>>} ELSE {p} \cup Prefixes(Parent(p))

DirsOf(fs) == {<<>>} \cup UNION {Prefixes(Parent(p)) : p \in fs}

EmptyDir == <<<<"x">>>>

Trees == {fs \in SUBSET PathUniverse : Cardinality(fs) <= MaxFiles}

OkResp == Resp(200, <<>>, 50)

\* an environment: a tree, the separator of the OS (a name holds no
\* separator), and per file the answers the server may give
Env(fs, sep, server) ==
    [isdir |-> TRUE, files |-> fs, dirs |-> DirsOf(fs), sep |-> sep, server |-> server]

WithEmptyDir(e) == [e EXCEPT !.dirs = @ \cup {EmptyDir}]

NameOk(e) == \A p \in e.files : \A i \in DOMAIN p : ~HasChar(p[i], e.sep)

Envs(trees, answers) ==
    {e \in {WithEmptyDir(Env(fs, sep, [f \in fs |-> answers])) :
                fs \in trees, sep \in {"/", "\\"}} :
        NameOk(e)}

\* a server that gives each file one fixed answer
FixedEnvs(trees, answers) ==
    UNION {{Env(fs, "/", [f \in fs |-> {g[f]}]) : g \in [fs -> answers]} : fs \in trees}

NoDirEnv ==
    [isdir |-> FALSE, files |-> {}, dirs |-> {}, sep |-> "/", server |-> <<>>]

InitWith(argvs, envs) ==
    /\ argv \in argvs
    /\ env \in envs
    /\ args = parse_args(argv)
    /\ headers = <<>>
    /\ pc = "start"
    /\ stack = <<>>
    /\ files = {}
    /\ requests = <<>>
    /\ output = <<>>
    /\ last = [path |-> <<>>, resp |-> ErrorResp]

Urls == {<<"h">>, <<"h", "/">>, <<"h", "/", "/">>, <<"h", "/", "p", "/">>}

Init ==
    InitWith({[NoArgv EXCEPT !.url = u] : u \in Urls},
             Envs(Trees, {ErrorResp, OkResp}) \cup {NoDirEnv})

Spec == Init /\ [][Next]_vars

\* the scan is one sequential loop: once started it keeps taking its next step
FairSpec == Spec /\ WF_vars(WalkDir \/ ProcessFile)

----------------------------------------------------------------------------
(* Range-list inputs: the parts below, at most MaxParts of them joined by ',' *)

PartSet ==
    {<<>>, <<" ">>, <<"1">>, <<"1", "2">>, <<" ", "2", " ">>,
     <<"1", "-", "3">>, <<"3", "-", "1">>, <<"-", "1">>,
     <<"1", "-">>, <<"1", "-", "2", "-", "3">>,
     <<"1", " ", "-", " ", "3">>, <<"a", "-", "b">>,
     <<"a", "l", "l">>, <<"A", "L", "L">>, <<" ", "A", "l", "l", " ">>,
     <<"a", "l">>, <<"x">>, <<"1", "x">>}

RECURSIVE JoinedParts(_)
JoinedParts(n) ==
    IF n = 1 THEN PartSet
    ELSE JoinedParts(n - 1)
         \cup {s \o <<",">> \o q : s \in JoinedParts(n - 1), q \in PartSet}

RangeInputs == {None} \cup {Str(s) : s \in JoinedParts(MaxParts)}

InitParse ==
    InitWith({[NoArgv EXCEPT !.ml = v] : v \in RangeInputs}
             \cup {[NoArgv EXCEPT !.fs = v] : v \in RangeInputs},
             {NoDirEnv})

\* main up to the check of the directory, on a directory that does not exist
SpecParse == InitParse /\ [][Prepare]_vars

----------------------------------------------------------------------------
(* C5 *)

\* the parts of a comma-separated string: its maximal comma-free stretches,
\* trimmed
PartsOf(s) ==
    {Strip(SubSeq(s, i, j)) : <<i, j>> \in
        {ij \in (1..(Len(s) + 1)) \X (0..Len(s)) :
            /\ ij[2] >= ij[1] - 1
            /\ \A k \in ij[1]..ij[2] : s[k] # ","
            /\ (ij[1] = 1 \/ s[ij[1] - 1] = ",")
            /\ (ij[2] = Len(s) \/ s[ij[2] + 1] = ",")}}

\* an integer as the options write it: a non-empty string of decimal digits
IsNumeral(t) ==
    t # <<>> /\ \A i \in DOMAIN t :
        t[i] \in {"0", "1", "2", "3", "4", "5", "6", "7", "8", "9"}

RECURSIVE Pow10(_)
Pow10(n) == IF n = 0 THEN 1 ELSE 10 * Pow10(n - 1)

RECURSIVE SumTo(_, _)
SumTo(t, n) ==
    IF n = 0 THEN 0
    ELSE SumTo(t, n - 1)
         + Pow10(Len(t) - n) * (CHOOSE d \in 0..9 : ToString(d) = t[n])

NumeralValue(t) == SumTo(t, Len(t))

IsAllWord(t) ==
    /\ Len(t) = 3
    /\ t[1] \in {"a", "A"} /\ t[2] \in {"l", "L"} /\ t[3] \in {"l", "L"}

\* the integers one part stands for: itself, or those of its range start-end
\* (a part holding '-' is a range or malformed)
IntsOfPart(t) ==
    IF IsNumeral(t) THEN {NumeralValue(t)}
    ELSE UNION {NumeralValue(Strip(SubSeq(t, 1, k - 1)))
                    .. NumeralValue(Strip(SubSeq(t, k + 1, Len(t)))) :
                k \in {k \in DOMAIN t :
                    /\ t[k] = "-"
                    /\ IsNumeral(Strip(SubSeq(t, 1, k - 1)))
                    /\ IsNumeral(Strip(SubSeq(t, k + 1, Len(t))))}}

ParsesAsStated(v, r) ==
    IF v.kind = "None" \/ v.s = <<>> THEN r = None
    ELSE /\ (r = All) <=> (\E t \in PartsOf(v.s) : IsAllWord(t))
         /\ r # All =>
              /\ r.kind = "set"
              /\ r.set = UNION {IntsOfPart(t) : t \in PartsOf(v.s)}

\* C5: parse_range_list returns None for None and for the empty string;
\* otherwise it returns 'all' exactly when some trimmed part is 'all' in any
\* capitalisation, and else the set holding exactly the integers given as
\* single parts and the integers of every inclusive range start-end,
\* malformed parts being ignored.
C5_ParseRangeList ==
    pc # "start" =>
        \A k \in RangeOptions : ParsesAsStated(parse_args(argv)[k], args[k])

\* a range, a single integer and a malformed part were parsed together
C5_Witness ==
    /\ pc # "start"
    /\ argv.ml = Str(<<"1", "-", "3", ",", "1", "x">>)
    /\ args.ml = SetOf({1, 2, 3})
    /\ args.mc.kind = "set" /\ 307 \in args.mc.set

----------------------------------------------------------------------------
(* C2 *)

\* the target URL without its trailing '/': the part before the final run of '/'
UrlBase(u) ==
    CHOOSE b \in {SubSeq(u, 1, n) : n \in 0..Len(u)} :
        /\ b = <<>> \/ b[Len(b)] # "/"
        /\ \A i \in (Len(b) + 1)..Len(u) : u[i] = "/"

\* the names of a relative path with '/' between them
RECURSIVE SlashPath(_)
SlashPath(names) ==
    IF Len(names) = 1 THEN names[1]
    ELSE SlashPath(Parent(names)) \o <<"/">> \o names[Len(names)]

UrlOf(f) == UrlBase(argv.url) \o <<"/">> \o SlashPath(f)

RequestsFor(f) == {i \in DOMAIN requests : requests[i].url = UrlOf(f)}

Terminated == pc \in {"done", "exit", "interrupted"}

ScanInvariant ==
    /\ \A i \in DOMAIN requests : \E f \in env.files : requests[i].url = UrlOf(f)
    /\ \A f \in env.files : Cardinality(RequestsFor(f)) <= 1
    /\ pc = "done" => \A f \in env.files : Cardinality(RequestsFor(f)) = 1

\* C2: every request goes to the target URL without its trailing '/', then
\* '/', then the relative path of a file of the tree with '/' as separator;
\* no file is requested twice; when main returns from the scan every file of
\* the tree has been requested exactly once; and the scan terminates.
C2_OneRequestPerFile == []ScanInvariant /\ (pc = "walk" ~> Terminated)

\* a scan of MaxFiles files, one of them two directories down, under a
\* target URL with two trailing '/', has returned
C2_Witness ==
    /\ pc = "done"
    /\ argv.url = <<"h", "/", "/">>
    /\ <<D, E, B>> \in env.files
    /\ Len(requests) = 3
    /\ \E i \in DOMAIN requests : requests[i].url = <<"h", "/", "d", "/", "e", "/", "b">>

----------------------------------------------------------------------------
(* Header inputs: at most MaxHeaders -H flags *)

HeaderInputs ==
    {<<"U", "s", "e", "r", "-", "A", "g", "e", "n", "t", ":", " ", "x">>,
     <<"u", "s", "e", "r", "-", "a", "g", "e", "n", "t", ":", "y">>,
     <<"U", "S", "E", "R", "-", "A", "G", "E", "N", "T", ":", " ", "z">>,
     <<"X", ":", " ", "1">>,
     <<"X", ":", "2">>,
     <<"n">>,
     <<"A", ":", "b", ":", "c">>,
     <<" ", "C", " ", ":", " ", "d", " ">>}

RECURSIVE ListsUpTo(_, _)
ListsUpTo(S, n) ==
    IF n = 0 THEN {<<>>}
    ELSE ListsUpTo(S, n - 1)
         \cup {Append(l, x) : l \in {m \in ListsUpTo(S, n - 1) : Len(m) = n - 1}, x \in S}

OneFile == {{<<A>>}}

InitHeaders ==
    InitWith({[NoArgv EXCEPT !.header = h] :
                 h \in {NoHeaders}
                       \cup {HeaderList(l) : l \in ListsUpTo(HeaderInputs, MaxHeaders) \ {<<>>}}},
             Envs(OneFile, {ErrorResp, OkResp}))

SpecHeaders == InitHeaders /\ [][Next]_vars

----------------------------------------------------------------------------
(* C6 *)

LowerUserAgent == <<"u", "s", "e", "r", "-", "a", "g", "e", "n", "t">>

\* the -H values that hold ':', as <<place, name, value>>
GivenHeaders ==
    IF argv.header.kind = "None" THEN {}
    ELSE {<<i, Strip(SplitFirst(argv.header.list[i], ":")[1]),
               Strip(SplitFirst(argv.header.list[i], ":")[2])>> :
            i \in {j \in DOMAIN argv.header.list : HasChar(argv.header.list[j], ":")}}

UserGaveUserAgent == \E g \in GivenHeaders : Lower(g[2]) = LowerUserAgent

\* C6: the default User-Agent is sent with a request if and only if the user
\* gave no User-Agent header with -H, in any capitalisation of the name; when
\* the user gave one, the request carries only the user's value; each -H
\* value holding ':' yields the header named by the trimmed text before the
\* first ':' with the trimmed text after it (the last one given for a name),
\* and the headers hold nothing else.
C6_DefaultUserAgent ==
    \A i \in DOMAIN requests :
        LET h == requests[i].headers IN
        /\ (\E j \in DOMAIN h : Lower(h[j][1]) = LowerUserAgent /\ h[j][2] = DefaultUA)
               <=> ~UserGaveUserAgent
        /\ \A g \in GivenHeaders :
               (\A g2 \in GivenHeaders : g2[2] = g[2] => g2[1] <= g[1])
                   => \E j \in DOMAIN h : h[j] = <<g[2], g[3]>>
        /\ \A j \in DOMAIN h :
               \/ \E g \in GivenHeaders : h[j] = <<g[2], g[3]>>
               \/ ~UserGaveUserAgent /\ h[j] = <<UserAgent, DefaultUA>>

----------------------------------------------------------------------------
(* Status-code inputs *)

StatusCodes == {200, 201, 204, 301, 302, 307, 401, 403, 404, 405, 500, 503}

McInputs ==
    {None, Str(<<>>), Str(<<"x">>), Str(<<"x", ",", "y">>), Str(<<"4", "0", "4">>),
     Str(<<"2", "0", "0", "-", "2", "0", "4">>), Str(<<"2", "0", "0", ",", "x">>)}

InitMc ==
    InitWith({[NoArgv EXCEPT !.mc = v] : v \in McInputs},
             Envs(OneFile, {ErrorResp} \cup {Resp(st, <<>>, 50) : st \in StatusCodes}))

SpecMc == InitMc /\ [][Next]_vars

\* the last request was answered and its result line was printed
LastAnswered == requests # <<>> /\ last.resp.kind = "response"
LastPrinted == output # <<>> /\ output[Len(output)].path = last.path

----------------------------------------------------------------------------
(* C4 *)

CommonCodes == {200, 204, 301, 302, 307, 401, 403, 405, 500}

\* the status codes a -mc value lists
ListedCodes(v) == UNION {IntsOfPart(t) : t \in PartsOf(v.s)}

OnlyMc ==
    \A k \in (RangeOptions \cup StringOptions) \ {"mc"} : argv[k].kind = "None"

\* C4: with no other matcher and no filter, and a -mc value other than 'all',
\* a response is reported only if its status is listed in the -mc value
\* (none is, when every part is malformed or the value is empty); with the
\* default -mc it is reported iff its status is one of the common codes.
C4_McMatchesStatus ==
    (LastAnswered /\ OnlyMc) =>
        IF argv.mc.kind = "None"
        THEN LastPrinted <=> last.resp.status \in CommonCodes
        ELSE (\A t \in PartsOf(argv.mc.s) : ~IsAllWord(t))
                 => (LastPrinted => last.resp.status \in ListedCodes(argv.mc))

----------------------------------------------------------------------------
(* Matcher and filter inputs *)

Bodies ==
    {<<>>, <<"a">>, <<"a", " ", "a">>, <<"a", "\n", "a">>, <<"b", "\n">>}

Answers ==
    {ErrorResp}
    \cup {Resp(st, b, 50) : st \in {200, 404}, b \in Bodies}
    \cup {Resp(200, b, 100) : b \in Bodies}

MatcherArgvs ==
    {[NoArgv EXCEPT !.mc = c, !.ml = l, !.mw = w, !.ms = z, !.mr = r, !.mt = t,
                    !.mmode = m] :
        c \in {None, Str(<<"a", "l", "l">>), Str(<<"4", "0", "4">>), Str(<<"x">>)},
        l \in {None, Str(<<"1">>)},
        w \in {None, Str(<<"2">>)},
        z \in {None, Str(<<"0", "-", "1">>)},
        r \in {None, Str(<<"a">>)},
        t \in {None, Str(<<">", "6", "0">>), Str(<<"<", "x">>)},
        m \in {Absent, "or"}}

FilterArgvs ==
    {[NoArgv EXCEPT !.fc = c, !.fl = l, !.fw = w, !.fs = z, !.fr = r, !.ft = t,
                    !.fmode = m] :
        c \in {None, Str(<<"2", "0", "0">>), Str(<<"x">>)},
        l \in {None, Str(<<"1">>)},
        w \in {None, Str(<<"2">>)},
        z \in {None, Str(<<"2">>)},
        r \in {None, Str(<<"a">>)},
        t \in {None, Str(<<"<", "6", "0">>)},
        m \in {Absent, "and"}}

FewMatchers ==
    {NoArgv,
     [NoArgv EXCEPT !.mc = Str(<<"a", "l", "l">>)],
     [NoArgv EXCEPT !.mc = Str(<<"x">>), !.mr = Str(<<"a">>), !.mmode = "and"]}

FewFilters ==
    {NoArgv,
     [NoArgv EXCEPT !.fc = Str(<<"2", "0", "0">>), !.fmode = "or"],
     [NoArgv EXCEPT !.fl = Str(<<"1">>), !.fr = Str(<<"a">>), !.fmode = "and"]}

\* the matcher options of m with the filter options of f
Both(m, f) ==
    [m EXCEPT !.fc = f.fc, !.fl = f.fl, !.fw = f.fw, !.fs = f.fs, !.fr = f.fr,
              !.ft = f.ft, !.fmode = f.fmode]

InitEval ==
    InitWith({Both(m, f) : m \in MatcherArgvs, f \in FewFilters}
             \cup {Both(m, f) : m \in FewMatchers, f \in FilterArgvs},
             {Env({<<A>>}, "/", [f \in {<<A>>} |-> Answers])})

SpecEval == InitEval /\ [][Next]_vars

----------------------------------------------------------------------------
(* C1 *)

FilterSet == \E k \in {"fc", "fl", "fw", "fs", "fr", "ft"} : argv[k].kind # "None"

\* C1: an answered request is reported if and only if it is not filtered out
\* (some filter option is set and check_conditions holds for the filters)
\* and check_conditions holds for the matchers; filters win over matchers.
C1_ReportedIffNotFilteredAndMatched ==
    LastAnswered =>
        (LastPrinted <=>
            /\ ~(FilterSet /\ check_conditions(MetricsOf(last.resp), args, "f"))
            /\ check_conditions(MetricsOf(last.resp), args, "m"))

\* a response that passes the filters' conditions and the matchers' alike
\* was received and not reported
C1_Witness ==
    /\ LastAnswered
    /\ FilterSet
    /\ check_conditions(MetricsOf(last.resp), args, "f")
    /\ check_conditions(MetricsOf(last.resp), args, "m")
    /\ ~LastPrinted

----------------------------------------------------------------------------
(* C3 *)

\* the criteria of a prefix: option letter, metric, how the metric is compared
Criteria ==
    {<<"c", "status", "set">>, <<"l", "lines", "set">>, <<"w", "words", "set">>,
     <<"s", "size", "set">>, <<"r", "body", "text">>, <<"t", "duration", "comparator">>}

\* a criterion is configured when its option holds a value that is not empty
Configured(prefix) == {c \in Criteria : Truthy(args[prefix \o c[1]])}

CriterionMatches(c, prefix) ==
    match_value(MetricsOf(last.resp)[c[2]], args[prefix \o c[1]], c[3])

\* C3: for either prefix with at least one configured criterion,
\* check_conditions is true under 'or' iff some configured criterion matches
\* the metrics and under 'and' iff every configured criterion matches; the
\* operator is 'and' for matchers and 'or' for filters unless given.
C3_AndOrComposition ==
    LastAnswered =>
        /\ \A prefix \in {"m", "f"} :
             Configured(prefix) # {} =>
                (check_conditions(MetricsOf(last.resp), args, prefix) <=>
                    IF args[prefix \o "mode"] = "or"
                    THEN \E c \in Configured(prefix) : CriterionMatches(c, prefix)
                    ELSE \A c \in Configured(prefix) : CriterionMatches(c, prefix))
        /\ argv.mmode = Absent => args.mmode = "and"
        /\ argv.fmode = Absent => args.fmode = "or"

\* two matchers under 'or', one matching and one not, have let a response
\* through, and two filters under 'and', one matching and one not, as well
C3_Witness ==
    /\ LastAnswered /\ LastPrinted
    /\ args.mmode = "or"
    /\ \E c, d \in Configured("m") :
          CriterionMatches(c, "m") /\ ~CriterionMatches(d, "m")
    /\ args.fmode = "and"
    /\ \E c, d \in Configured("f") :
          CriterionMatches(c, "f") /\ ~CriterionMatches(d, "f")

----------------------------------------------------------------------------
(* Scans against a server that answers each path in one fixed way *)

FixedAnswers ==
    {ErrorResp, Resp(200, <<>>, 50), Resp(404, <<>>, 50), Resp(200, <<"a">>, 50)}

OrderArgvs ==
    {NoArgv,
     [NoArgv EXCEPT !.fc = Str(<<"4", "0", "4">>)],
     [NoArgv EXCEPT !.mc = Str(<<"a", "l", "l">>), !.fr = Str(<<"a">>)]}

OrderTrees ==
    {fs \in SUBSET {<<A>>, <<D, A>>, <<D, E, B>>, <<E, A>>} : Cardinality(fs) <= MaxFiles}

InitOrder == InitWith(OrderArgvs, FixedEnvs(OrderTrees, FixedAnswers))

SpecOrder == InitOrder /\ [][Next]_vars

----------------------------------------------------------------------------
(* C7 *)

\* the one answer the server gives for a file
AnswerFor(f) == CHOOSE r \in env.server[f] : TRUE

\* what the fixed options make of the answer for a file, by itself
ReportedAlone(f) ==
    /\ AnswerFor(f).kind = "response"
    /\ Prints(MetricsOf(AnswerFor(f)), args)

Requested == {f \in env.files : RequestsFor(f) # {}}

ReportedSoFar ==
    /\ {output[i].path : i \in DOMAIN output}
           = {SlashPath(f) : f \in {g \in Requested : ReportedAlone(g)}}
    /\ Len(output) = Cardinality({g \in Requested : ReportedAlone(g)})

\* C7: the scan leaves the parsed options and the headers as they are, and
\* whatever the order of the visits and the outcomes of earlier paths, the
\* reported paths are those whose own answer passes the fixed options.
C7_Stateless ==
    /\ [](pc \in {"walk", "done", "interrupted"} => ReportedSoFar)
    /\ [][pc = "walk" => (args' = args /\ headers' = headers)]_vars

\* a scan of three files has returned: one request failed, one answer was
\* filtered out, one was reported
C7_Witness ==
    /\ pc = "done"
    /\ Len(requests) = 3
    /\ argv.fc.kind = "str"
    /\ Len(output) = 1
    /\ \E f, g \in env.files :
          AnswerFor(f).kind = "error" /\ AnswerFor(g).status = 404

====
